---- MODULE Spec2Model ----
(***************************************************************************)
(* Model of stagesepx/cutter.py: VideoCutRange (can_merge, merge, pick,    *)
(* is_stable, is_loop), VideoCutResult (get_unstable_range, get_range) and *)
(* VideoCutter.convert_video_into_ssim_list.                               *)
(*                                                                         *)
(* Similarity scores and thresholds are integers in percent (0.95 = 95).   *)
(* A falsy Python argument (None, 0, 0.0) is written 0.                    *)
(* Assertions are enabled (the interpreter's default mode).                *)
(***************************************************************************)
EXTENDS Integers, Sequences, FiniteSets, TLC

VARIABLES
    step,            \* VideoCutter.step
    frame_count,     \* number of frames the capture can deliver
    cap_pos,         \* CAP_PROP_POS_FRAMES of the capture
    start_frame_id,  \* locals of convert_video_into_ssim_list
    end_frame_id,
    ret,
    ssim_list,       \* the list being built, then VideoCutResult.ssim_list
    built,           \* history: the list as handed to VideoCutResult.__init__
    loop_period,     \* the video's content, as far as is_loop sees it
    pc,              \* "cut" | "ready" | "range"
    last,            \* outcome of the last VideoCutResult call
    self_r,          \* operands and outcome of the last VideoCutRange call
    other_r,
    out

vars == <<step, frame_count, cap_pos, start_frame_id, end_frame_id, ret,
          ssim_list, built, loop_period, pc, last, self_r, other_r, out>>

(***************************** bounds **************************************)
MaxFrames == 6      \* frames in a video
MaxStep == 2        \* VideoCutter.step
MaxOffset == 2      \* offset argument
MaxId == 3          \* frame ids of the ranges the range operations are applied to
MaxCount == 5       \* frame_count argument of pick
MaxRandomCount == 2 \* frame_count argument of pick with is_random

(************************* program constants *******************************)
DefaultThreshold == 95
DefaultFrameCount == 1
DefaultStep == 1

Videos == {"a.mp4", "b.mp4"}
Scores == {40, 99}
Thresholds == {0, 30}
Limits == {0, 3}
RangeThresholds == {0, 90}
Offsets == 0..MaxOffset

(******************************* helpers ***********************************)
RECURSIVE Sum(_)
Sum(s) == IF s = <<>> THEN 0 ELSE Head(s) + Sum(Tail(s))

\* Python's int() of the rational num/den (den > 0): truncation toward zero.
IntTrunc(num, den) ==
    IF num >= 0 THEN num \div den ELSE -((-num) \div den)

\* toolbox.get_current_frame_time: the timestamp of a frame id.
TimeOf(id) == id * 40

(**************************** VideoCutRange ********************************)
NoRange == [video_path |-> "", start |-> 0, end |-> 0, ssim |-> <<>>,
            start_time |-> 0, end_time |-> 0]

VideoCutRange(video_path, start, end, ssim, start_time, end_time) ==
    IF start > end
    THEN [video_path |-> video_path, start |-> end, end |-> start, ssim |-> ssim,
          start_time |-> end_time, end_time |-> start_time]
    ELSE [video_path |-> video_path, start |-> start, end |-> end, ssim |-> ssim,
          start_time |-> start_time, end_time |-> end_time]

can_merge_always_offset(self, another, offset) ==
    /\ self.end + offset >= another.start
    /\ self.video_path = another.video_path

can_merge(self, another, offset) ==
    LET is_continuous == IF offset = 0
                         THEN self.end = another.start
                         ELSE self.end + offset >= another.start
    IN  is_continuous /\ self.video_path = another.video_path

\* merge returns the new range; self and another are reported as the call
\* leaves them, so that a caller holding references sees any change.
merge_in_place(self, another, offset) ==
    IF ~ can_merge(self, another, offset)
    THEN [status |-> "AssertionError", value |-> NoRange,
          self |-> self, another |-> another]
    ELSE LET grown == VideoCutRange(self.video_path, self.start, another.end,
                                    self.ssim \o another.ssim,
                                    self.start_time, another.end_time)
         IN  [status |-> "ok", value |-> grown, self |-> grown, another |-> another]

merge_self_end_time(self, another, offset) ==
    IF ~ can_merge(self, another, offset)
    THEN [status |-> "AssertionError", value |-> NoRange,
          self |-> self, another |-> another]
    ELSE [status |-> "ok",
          value |-> VideoCutRange(self.video_path, self.start, another.end,
                                  self.ssim \o another.ssim,
                                  self.start_time, self.end_time),
          self |-> self, another |-> another]

merge(self, another, offset) ==
    IF ~ can_merge(self, another, offset)
    THEN [status |-> "AssertionError", value |-> NoRange,
          self |-> self, another |-> another]
    ELSE [status |-> "ok",
          value |-> VideoCutRange(self.video_path, self.start, another.end,
                                  self.ssim \o another.ssim,
                                  self.start_time, another.end_time),
          self |-> self, another |-> another]

contain(self, frame_id) == frame_id \in self.start..self.end

get_length(self) == self.end - self.start + 1

pick_from_span(self, frame_count_arg) ==
    LET n == IF frame_count_arg = 0 THEN DefaultFrameCount ELSE frame_count_arg
        length == self.end - self.start
    IN  [i \in 1..n |-> IntTrunc(self.start * n + length * (i - 1), n)]

\* the non-random branch of pick
pick(self, frame_count_arg) ==
    LET n == IF frame_count_arg = 0 THEN DefaultFrameCount ELSE frame_count_arg
        length == get_length(self)
    IN  [i \in 1..n |-> IntTrunc(self.start * n + length * (i - 1), n)]

\* the random branch of pick: the sequences random.sample may return
pick_random(self, frame_count_arg) ==
    LET n == IF frame_count_arg = 0 THEN DefaultFrameCount ELSE frame_count_arg
        population == self.start..(self.end - 1)
    IN  {s \in [1..n -> population] : \A i, j \in 1..n : i # j => s[i] # s[j]}

is_stable(self, threshold) ==
    LET t == IF threshold = 0 THEN DefaultThreshold ELSE threshold
    IN  Sum(self.ssim) > t * Len(self.ssim)

\* toolbox.compare_ssim of the frames at two ids: frames repeat with the
\* video's loop_period (0: no two different frames look alike).
compare_frames(period, a, b) ==
    IF a = b \/ (period # 0 /\ (b - a) % period = 0) THEN 99 ELSE 40

is_loop(self, threshold, period) ==
    LET t == IF threshold = 0 THEN DefaultThreshold ELSE threshold
    IN  compare_frames(period, self.start, self.end) > t

(**************************** VideoCutResult *******************************)
\* The elementary ranges are objects: heap[k] is the k-th object of
\* ssim_list, and a reference to it is its index k (0: a fresh object).

RECURSIVE get_target_range_by_id(_, _)
get_target_range_by_id(heap, frame_id) ==
    IF heap = <<>>
    THEN [status |-> "RuntimeError", value |-> NoRange]
    ELSE IF contain(Head(heap), frame_id)
         THEN [status |-> "ok", value |-> Head(heap)]
         ELSE get_target_range_by_id(Tail(heap), frame_id)

_length_filter(range_list, limit) ==
    SelectSeq(range_list, LAMBDA each : get_length(each) >= limit)

\* sorted(..., key=lambda x: x.start) on a list of ranges (a stable sort)
RECURSIVE insert_by_start(_, _)
insert_by_start(sorted_list, x) ==
    IF sorted_list = <<>> THEN <<x>>
    ELSE IF Head(sorted_list).start <= x.start
         THEN <<Head(sorted_list)>> \o insert_by_start(Tail(sorted_list), x)
         ELSE <<x>> \o sorted_list

RECURSIVE sorted_by_start(_)
sorted_by_start(range_list) ==
    IF range_list = <<>> THEN <<>>
    ELSE insert_by_start(sorted_by_start(SubSeq(range_list, 1, Len(range_list) - 1)),
                         range_list[Len(range_list)])

\* the same sort on a list of references into the heap
RECURSIVE insert_ref_by_start(_, _, _)
insert_ref_by_start(heap, sorted_refs, x) ==
    IF sorted_refs = <<>> THEN <<x>>
    ELSE IF heap[Head(sorted_refs)].start <= heap[x].start
         THEN <<Head(sorted_refs)>> \o insert_ref_by_start(heap, Tail(sorted_refs), x)
         ELSE <<x>> \o sorted_refs

RECURSIVE sorted_refs_by_start(_, _)
sorted_refs_by_start(heap, refs) ==
    IF refs = <<>> THEN <<>>
    ELSE insert_ref_by_start(heap,
                             sorted_refs_by_start(heap, SubSeq(refs, 1, Len(refs) - 1)),
                             refs[Len(refs)])

\* change_range_list: references to the elementary ranges that are not stable
RECURSIVE unstable_refs(_, _, _)
unstable_refs(heap, k, threshold) ==
    IF k > Len(heap) THEN <<>>
    ELSE (IF is_stable(heap[k], threshold) THEN <<>> ELSE <<k>>)
         \o unstable_refs(heap, k + 1, threshold)

change_range_list(heap, threshold) ==
    sorted_refs_by_start(heap, unstable_refs(heap, 1, threshold))

\* the inner loop "while cur.can_merge(change_range_list[i + 1])"; i is the
\* 1-based position of cur's last candidate, ref the reference cur is (0 if
\* cur is a fresh object). merged_onto is the loop body once merge returned m.
RECURSIVE merge_while(_, _, _, _, _, _)
merged_onto(heap, change, i, ref, offset, m) ==
    IF i + 1 >= Len(change)
    THEN [heap |-> [(IF ref = 0 THEN heap ELSE [heap EXCEPT ![ref] = m.self])
                       EXCEPT ![change[i + 1]] = m.another],
          i |-> i + 1, cur |-> m.value]
    ELSE merge_while([(IF ref = 0 THEN heap ELSE [heap EXCEPT ![ref] = m.self])
                         EXCEPT ![change[i + 1]] = m.another],
                     change, i + 1, m.value, 0, offset)

merge_while(heap, change, i, cur, ref, offset) ==
    IF can_merge(cur, heap[change[i + 1]], offset)
    THEN merged_onto(heap, change, i, ref, offset,
                     merge(cur, heap[change[i + 1]], offset))
    ELSE [heap |-> heap, i |-> i, cur |-> cur]

\* the outer loop "while i < len(change_range_list) - 1"; scanned_from is the
\* rest of the loop once the inner loop returned w.
RECURSIVE merge_scan(_, _, _, _, _)
scanned_from(change, merged, offset, w) ==
    merge_scan(w.heap, change, w.i + 1, Append(merged, w.cur), offset)

merge_scan(heap, change, i, merged, offset) ==
    IF i < Len(change)
    THEN scanned_from(change, merged, offset,
                      merge_while(heap, change, i, heap[change[i]], change[i], offset))
    ELSE [heap |-> heap, merged |-> merged]

\* lines 173-174: the last candidate is appended if the scan left it out
append_last(change, scan) ==
    IF change = <<>> \/ scan.merged = <<>>
    THEN [status |-> "IndexError", value |-> <<>>, heap |-> scan.heap]
    ELSE IF scan.heap[change[Len(change)]].start > scan.merged[Len(scan.merged)].end
         THEN [status |-> "ok", heap |-> scan.heap,
               value |-> Append(scan.merged, scan.heap[change[Len(change)]])]
         ELSE [status |-> "ok", heap |-> scan.heap, value |-> scan.merged]

merge_candidates(heap, change, offset) ==
    append_last(change, merge_scan(heap, change, 1, <<>>, offset))

\* lines 154-174: the merged list before the length and loop filters
merged_change_range_list(heap, threshold, offset) ==
    merge_candidates(heap, change_range_list(heap, threshold), offset)

\* lines 176-180: the length filter and the loop filter
loop_filter(range_list, range_threshold, period) ==
    IF range_threshold # 0
    THEN SelectSeq(range_list, LAMBDA r : ~ is_loop(r, range_threshold, period))
    ELSE range_list

filter_merged(m, limit, range_threshold, period) ==
    IF m.status # "ok"
    THEN m
    ELSE [status |-> "ok", heap |-> m.heap,
          value |-> loop_filter(IF limit # 0 THEN _length_filter(m.value, limit)
                                ELSE m.value,
                                range_threshold, period)]

get_unstable_range(heap, limit, range_threshold, threshold, offset, period) ==
    filter_merged(merged_change_range_list(heap, threshold, offset),
                  limit, range_threshold, period)

\* the stable ranges between adjacent unstable ranges (lines 238-250);
\* diff_range is one iteration, given the two lookups and the later iterations
RECURSIVE diff_ranges(_, _, _, _)
diff_range(video_path, range_start_id, range_end_id, s, e, rest) ==
    IF s.status # "ok" \/ e.status # "ok"
    THEN [status |-> "RuntimeError", value |-> <<>>]
    ELSE IF rest.status # "ok"
         THEN rest
         ELSE [status |-> "ok",
               value |-> <<VideoCutRange(video_path, range_start_id, range_end_id,
                                         <<100>>, s.value.start_time,
                                         e.value.end_time)>>
                         \o rest.value]

diff_ranges(heap, video_path, unstable, i) ==
    IF i >= Len(unstable)
    THEN [status |-> "ok", value |-> <<>>]
    ELSE diff_range(video_path, unstable[i].end + 1, unstable[i + 1].start - 1,
                    get_target_range_by_id(heap, (unstable[i].end + 1) - 1),
                    get_target_range_by_id(heap, (unstable[i + 1].start - 1) - 1),
                    diff_ranges(heap, video_path, unstable, i + 1))

\* lines 217-257, given the lookups f and l of the two boundary ranges and the
\* ranges d in between
stable_range_list(heap, video_path, unstable, limit, f, l, d) ==
    IF f.status # "ok" \/ l.status # "ok" \/ d.status # "ok"
    THEN [status |-> "RuntimeError", stable |-> <<>>, unstable |-> <<>>, heap |-> heap]
    ELSE [status |-> "ok", unstable |-> unstable, heap |-> heap,
          stable |-> sorted_by_start(
              IF limit # 0
              THEN _length_filter(
                       << VideoCutRange(video_path, 0, unstable[1].start - 1,
                                        <<100>>, 0, f.value.start_time),
                          VideoCutRange(video_path, unstable[Len(unstable)].end,
                                        heap[Len(heap)].end, <<100>>,
                                        l.value.end_time, heap[Len(heap)].end_time) >>
                       \o d.value, limit)
              ELSE << VideoCutRange(video_path, 0, unstable[1].start - 1,
                                    <<100>>, 0, f.value.start_time),
                      VideoCutRange(video_path, unstable[Len(unstable)].end,
                                    heap[Len(heap)].end, <<100>>,
                                    l.value.end_time, heap[Len(heap)].end_time) >>
                   \o d.value)]

\* lines 204-257, given the outcome u of get_unstable_range
range_of_unstable(u, video_path, limit) ==
    IF u.status # "ok"
    THEN [status |-> u.status, stable |-> <<>>, unstable |-> <<>>, heap |-> u.heap]
    ELSE IF u.value = <<>>
         THEN [status |-> "IndexError", stable |-> <<>>, unstable |-> <<>>,
               heap |-> u.heap]
         ELSE stable_range_list(
                  u.heap, video_path, u.value, limit,
                  get_target_range_by_id(u.heap, (u.value[1].start - 1) - 1),
                  get_target_range_by_id(u.heap, u.value[Len(u.value)].end - 1),
                  diff_ranges(u.heap, video_path, u.value, 1))

get_range(heap, video_path, limit, range_threshold, threshold, offset, period) ==
    range_of_unstable(get_unstable_range(heap, limit, range_threshold, threshold,
                                         offset, period),
                      video_path, limit)

(*************************** toolbox (capture) *****************************)
\* cap.read(): succeeds while a frame is left, and then moves one frame on
cap_read(pos, count) ==
    [ret |-> pos < count, pos |-> IF pos < count THEN pos + 1 ELSE pos]

\* toolbox.video_jump(cap, frame_id): the next read delivers frame frame_id
video_jump(frame_id) == frame_id - 1

\* line 438: the ids of the next pair of frames
next_frame_ids_disjoint(start_id, end_id, stride) ==
    [start |-> end_id + 1, end |-> end_id + 1 + stride]

next_frame_ids(start_id, end_id, stride) ==
    [start |-> end_id, end |-> end_id + stride]

(****************************** the state **********************************)
NoCall == [op |-> "none", status |-> "ok", stable |-> <<>>, unstable |-> <<>>,
           limit |-> 0, range_threshold |-> 0, threshold |-> 0, offset |-> 0]

NoOut == [op |-> "none", status |-> "ok", flag |-> FALSE, value |-> NoRange,
          picked |-> <<>>, offset |-> 0, count |-> 0]

\* the end-to-end list of the documentation: 0-10, 10-20, 20-30, 30-40, 40-60
EndToEndList ==
    << VideoCutRange("a.mp4", 0, 10, <<99>>, TimeOf(0), TimeOf(10)),
       VideoCutRange("a.mp4", 10, 20, <<99>>, TimeOf(10), TimeOf(20)),
       VideoCutRange("a.mp4", 20, 30, <<40>>, TimeOf(20), TimeOf(30)),
       VideoCutRange("a.mp4", 30, 40, <<35>>, TimeOf(30), TimeOf(40)),
       VideoCutRange("a.mp4", 40, 60, <<99>>, TimeOf(40), TimeOf(60)) >>

\* the range of the documentation's sampling scenario, and one that follows it
SampleRange == VideoCutRange("a.mp4", 10, 19, <<40>>, TimeOf(10), TimeOf(19))

FollowingRange == VideoCutRange("a.mp4", 19, 25, <<99, 35>>, TimeOf(19), TimeOf(25))

RangesOf(ssim) ==
    {VideoCutRange(v, s, e, ssim, TimeOf(s), TimeOf(e)) :
        v \in Videos, s \in 0..MaxId, e \in 0..MaxId}

\* VideoCutter.__init__ on a video of frame_count frames
InitCutter ==
    /\ \E step_arg \in 0..MaxStep :
          step = IF step_arg = 0 THEN DefaultStep ELSE step_arg
    /\ frame_count \in 1..MaxFrames
    /\ loop_period \in 0..2
    /\ cap_pos = 0
    /\ start_frame_id = 0
    /\ end_frame_id = 0
    /\ ret = FALSE
    /\ ssim_list = <<>>
    /\ built = <<>>
    /\ pc = "new"
    /\ last = NoCall
    /\ self_r = NoRange
    /\ other_r = NoRange
    /\ out = NoOut

\* VideoCutResult.__init__ on a list the caller supplies
InitResult ==
    /\ step = DefaultStep
    /\ frame_count = 0
    /\ loop_period \in 0..2
    /\ cap_pos = 0
    /\ start_frame_id = 0
    /\ end_frame_id = 0
    /\ ret = FALSE
    /\ ssim_list = EndToEndList
    /\ built = EndToEndList
    /\ pc = "ready"
    /\ last = NoCall
    /\ self_r = NoRange
    /\ other_r = NoRange
    /\ out = NoOut

\* VideoCutRange.__init__ of two ranges
InitRanges ==
    /\ step = DefaultStep
    /\ frame_count = 0
    /\ loop_period = 0
    /\ cap_pos = 0
    /\ start_frame_id = 0
    /\ end_frame_id = 0
    /\ ret = FALSE
    /\ ssim_list = <<>>
    /\ built = <<>>
    /\ pc = "range"
    /\ last = NoCall
    /\ \/ self_r \in RangesOf(<<40>>) /\ other_r \in RangesOf(<<99, 35>>)
       \/ self_r = SampleRange /\ other_r = FollowingRange
    /\ out = NoOut

Init == InitCutter \/ InitResult \/ InitRanges

(************************ convert_video_into_ssim_list *********************)
\* lines 383-398: read the first frame, jump, read the second
CutBegin ==
    /\ pc = "new"
    /\ LET first == cap_read(cap_pos, frame_count)
           second == cap_read(video_jump(step + 1), frame_count)
       IN  /\ start_frame_id' = first.pos
           /\ ret' = second.ret
           /\ end_frame_id' = second.pos
           /\ cap_pos' = second.pos
    /\ pc' = "loop"
    /\ UNCHANGED <<step, frame_count, ssim_list, built, loop_period, last,
                   self_r, other_r, out>>

\* lines 411-442: one iteration of "while ret"
CutStep ==
    /\ pc = "loop"
    /\ ret
    /\ \E ssim \in Scores :
          ssim_list' = Append(ssim_list,
                              VideoCutRange("a.mp4", start_frame_id, end_frame_id,
                                            <<ssim>>, TimeOf(start_frame_id),
                                            TimeOf(end_frame_id)))
    /\ LET ids == next_frame_ids(start_frame_id, end_frame_id, step)
           next == cap_read(video_jump(ids.end), frame_count)
       IN  /\ start_frame_id' = ids.start
           /\ end_frame_id' = ids.end
           /\ ret' = next.ret
           /\ cap_pos' = next.pos
    /\ UNCHANGED <<step, frame_count, built, loop_period, pc, last,
                   self_r, other_r, out>>

\* line 444 and cut, lines 461-468: the list becomes a VideoCutResult
CutReturn ==
    /\ pc = "loop"
    /\ ~ ret
    /\ built' = ssim_list
    /\ pc' = "ready"
    /\ UNCHANGED <<step, frame_count, cap_pos, start_frame_id, end_frame_id, ret,
                   ssim_list, loop_period, last, self_r, other_r, out>>

(************************** VideoCutResult calls ***************************)
\* a call returns r: the result is kept and the objects are as the call left them
Returned_unstable(r, limit, range_threshold, threshold, offset) ==
    /\ ssim_list' = r.heap
    /\ last' = [op |-> "get_unstable_range", status |-> r.status,
                stable |-> <<>>, unstable |-> r.value,
                limit |-> limit, range_threshold |-> range_threshold,
                threshold |-> threshold, offset |-> offset]

Returned_range(r, limit, range_threshold, threshold, offset) ==
    /\ ssim_list' = r.heap
    /\ last' = [op |-> "get_range", status |-> r.status,
                stable |-> r.stable, unstable |-> r.unstable,
                limit |-> limit, range_threshold |-> range_threshold,
                threshold |-> threshold, offset |-> offset]

GetUnstableRange ==
    /\ pc = "ready"
    /\ \E limit \in Limits, range_threshold \in RangeThresholds,
          threshold \in Thresholds, offset \in Offsets :
          Returned_unstable(get_unstable_range(ssim_list, limit, range_threshold,
                                               threshold, offset, loop_period),
                            limit, range_threshold, threshold, offset)
    /\ UNCHANGED <<step, frame_count, cap_pos, start_frame_id, end_frame_id, ret,
                   built, loop_period, pc, self_r, other_r, out>>

GetRange ==
    /\ pc = "ready"
    /\ \E limit \in Limits, range_threshold \in RangeThresholds,
          threshold \in Thresholds, offset \in Offsets :
          Returned_range(get_range(ssim_list, "a.mp4", limit, range_threshold,
                                   threshold, offset, loop_period),
                         limit, range_threshold, threshold, offset)
    /\ UNCHANGED <<step, frame_count, cap_pos, start_frame_id, end_frame_id, ret,
                   built, loop_period, pc, self_r, other_r, out>>

(*************************** VideoCutRange calls ***************************)
CanMerge ==
    /\ pc = "range"
    /\ \E offset \in Offsets :
          out' = [NoOut EXCEPT !.op = "can_merge", !.offset = offset,
                               !.flag = can_merge(self_r, other_r, offset)]
    /\ UNCHANGED <<step, frame_count, cap_pos, start_frame_id, end_frame_id, ret,
                   ssim_list, built, loop_period, pc, last, self_r, other_r>>

Returned_merge(m, offset) ==
    /\ out' = [NoOut EXCEPT !.op = "merge", !.offset = offset,
                            !.status = m.status, !.value = m.value]
    /\ self_r' = m.self
    /\ other_r' = m.another

Merge ==
    /\ pc = "range"
    /\ \E offset \in Offsets :
          Returned_merge(merge(self_r, other_r, offset), offset)
    /\ UNCHANGED <<step, frame_count, cap_pos, start_frame_id, end_frame_id, ret,
                   ssim_list, built, loop_period, pc, last>>

Pick ==
    /\ pc = "range"
    /\ \E count \in 0..MaxCount :
          out' = [NoOut EXCEPT !.op = "pick", !.count = count,
                               !.picked = pick(self_r, count)]
    /\ UNCHANGED <<step, frame_count, cap_pos, start_frame_id, end_frame_id, ret,
                   ssim_list, built, loop_period, pc, last, self_r, other_r>>

PickRandom ==
    /\ pc = "range"
    /\ \E count \in 0..MaxRandomCount :
          IF pick_random(self_r, count) = {}
          THEN out' = [NoOut EXCEPT !.op = "pick_random", !.count = count,
                                    !.status = "ValueError"]
          ELSE \E s \in pick_random(self_r, count) :
                  out' = [NoOut EXCEPT !.op = "pick_random", !.count = count,
                                       !.picked = s]
    /\ UNCHANGED <<step, frame_count, cap_pos, start_frame_id, end_frame_id, ret,
                   ssim_list, built, loop_period, pc, last, self_r, other_r>>

Next ==
    \/ CutBegin
    \/ CutStep
    \/ CutReturn
    \/ GetUnstableRange
    \/ GetRange
    \/ CanMerge
    \/ Merge
    \/ Pick
    \/ PickRandom

Spec == Init /\ [][Next]_vars

TypeOK ==
    /\ pc \in {"new", "loop", "ready", "range"}
    /\ step \in 1..MaxStep
    /\ last.status \in {"ok", "IndexError", "RuntimeError"}

(***************************************************************************)
(* Properties                                                              *)
(***************************************************************************)
Bounds(range_list) == [i \in 1..Len(range_list) |->
                          <<range_list[i].start, range_list[i].end>>]

RECURSIVE ConcatScores(_)
ConcatScores(range_list) ==
    IF range_list = <<>> THEN <<>>
    ELSE Head(range_list).ssim \o ConcatScores(Tail(range_list))

Returned == last.stable \o last.unstable

LastFrameId == built[Len(built)].end

\* the elementary ranges that are not stable, in list order
Candidates(threshold) ==
    SelectSeq(built, LAMBDA r : ~ is_stable(r, threshold))

\* the unstable list a get_range call with last's arguments works from
UnstableOfLast ==
    get_unstable_range(built, last.limit, last.range_threshold, last.threshold,
                       last.offset, loop_period)

HasUnstable == UnstableOfLast.status = "ok" /\ UnstableOfLast.value # <<>>

\* C1: with no length filter and no loop filter, the stable and unstable lists
\* of get_range cover every frame id of [0, last_frame_id] exactly once.
C1_PartitionInvariant ==
    ( /\ pc = "ready"
      /\ last.op = "get_range"
      /\ last.limit = 0
      /\ last.range_threshold = 0
      /\ Candidates(last.threshold) # <<>> )
    => /\ last.status = "ok"
       /\ \A id \in 0..LastFrameId :
             Cardinality({k \in 1..Len(Returned) : contain(Returned[k], id)}) = 1

\* the merged unstable ranges all fall to the length filter or the loop filter
AllFiltered ==
    LET m == merged_change_range_list(built, last.threshold, last.offset)
    IN  /\ m.status = "ok"
        /\ \A k \in 1..Len(m.value) :
              \/ last.limit # 0 /\ get_length(m.value[k]) < last.limit
              \/ last.range_threshold # 0
                 /\ is_loop(m.value[k], last.range_threshold, loop_period)

\* C2: when no unstable range remains, get_unstable_range returns the empty
\* list and get_range returns the single stable range [0, last_frame_id].
C2_EmptyUnstableFallback ==
    ( /\ pc = "ready"
      /\ built # <<>>
      /\ last.op \in {"get_unstable_range", "get_range"}
      /\ (Candidates(last.threshold) = <<>> \/ AllFiltered) )
    => /\ last.status = "ok"
       /\ last.unstable = <<>>
       /\ last.op = "get_range" => Bounds(last.stable) = << <<0, LastFrameId>> >>

SameVideo == self_r.video_path = other_r.video_path

\* C3: can_merge is true iff the ranges belong to the same video and
\* self.end + offset >= other.start, for every offset >= 0.
C3_CanMergeWithinOffset ==
    out.op = "can_merge"
    => (out.flag <=> (SameVideo /\ self_r.end + out.offset >= other_r.start))

\* C3 (amended): can_merge is true iff the ranges belong to the same video and,
\* for offset = 0, self.end = other.start, for offset > 0,
\* self.end + offset >= other.start.
C3_CanMergeAmended ==
    out.op = "can_merge"
    => (out.flag <=> /\ SameVideo
                     /\ IF out.offset = 0
                        THEN self_r.end = other_r.start
                        ELSE self_r.end + out.offset >= other_r.start)

C3_Witness ==
    /\ out.op = "can_merge"
    /\ out.offset = 0
    /\ SameVideo
    /\ other_r.start < self_r.end
    /\ ~ out.flag

\* C4: merge succeeds exactly when can_merge holds; it fails with a precondition
\* violation otherwise; on success the result is [self.start, other.end] with
\* self's start_time, other's end_time and self's scores followed by other's.
C4_MergeResult ==
    out.op = "merge"
    => IF can_merge(self_r, other_r, out.offset)
       THEN /\ out.status = "ok"
            /\ out.value.start = self_r.start
            /\ out.value.end = other_r.end
            /\ out.value.start_time = self_r.start_time
            /\ out.value.end_time = other_r.end_time
            /\ out.value.ssim = self_r.ssim \o other_r.ssim
       ELSE /\ out.status = "AssertionError"
            /\ out.value = NoRange

\* C4 (amended): as C4, but when self.start > other.end the result is
\* normalised: its bounds are [other.end, self.start] and its timestamps
\* other's end_time and self's start_time.
C4_MergeAmended ==
    out.op = "merge"
    => IF can_merge(self_r, other_r, out.offset)
       THEN /\ out.status = "ok"
            /\ out.value.video_path = self_r.video_path
            /\ out.value.ssim = self_r.ssim \o other_r.ssim
            /\ IF self_r.start <= other_r.end
               THEN /\ out.value.start = self_r.start
                    /\ out.value.end = other_r.end
                    /\ out.value.start_time = self_r.start_time
                    /\ out.value.end_time = other_r.end_time
               ELSE /\ out.value.start = other_r.end
                    /\ out.value.end = self_r.start
                    /\ out.value.start_time = other_r.end_time
                    /\ out.value.end_time = self_r.start_time
       ELSE /\ out.status = "AssertionError"
            /\ out.value = NoRange

C4_Witness ==
    /\ out.op = "merge"
    /\ out.status = "ok"
    /\ self_r.start > other_r.end
    /\ out.value.start = other_r.end

\* the stable list the documentation describes for the unstable list u
ExpectedStable(u) ==
    << <<0, u[1].start - 1>> >>
    \o [i \in 1..(Len(u) - 1) |-> <<u[i].end + 1, u[i + 1].start - 1>>]
    \o << <<u[Len(u)].end, LastFrameId>> >>

\* C5: for a non-empty unstable list u and limit 0 the stable list is the
\* leading range [0, u[0].start - 1], the interior ranges
\* [u[i].end + 1, u[i+1].start - 1] and the trailing range
\* [u[-1].end, last_frame_id], in this order, each with scores [1.0]; the
\* end-to-end list gives unstable [{20,40}] and stable [{0,19},{40,60}].
C5_StableReconciliation ==
    ( /\ pc = "ready"
      /\ last.op = "get_range"
      /\ last.limit = 0
      /\ HasUnstable )
    => /\ last.status = "ok"
       /\ last.unstable = UnstableOfLast.value
       /\ Bounds(last.stable) = ExpectedStable(last.unstable)
       /\ \A k \in 1..Len(last.stable) : last.stable[k].ssim = <<100>>
       /\ ( /\ built = EndToEndList
            /\ last.threshold = 0
            /\ last.offset = 0
            /\ last.range_threshold = 0 )
          => /\ Bounds(last.unstable) = << <<20, 40>> >>
             /\ Bounds(last.stable) = << <<0, 19>>, <<40, 60>> >>

Length(r) == r.end - r.start + 1

\* C6: the non-random pick(count), count >= 1, returns the indices
\* start + floor(length / count * i), i = 0..count-1, in this order, and none
\* of them is end; pick(3) on {10,19} returns [10, 13, 16].
C6_PickNeverEnd ==
    (out.op = "pick" /\ out.count >= 1)
    => /\ Len(out.picked) = out.count
       /\ \A i \in 1..out.count :
             /\ out.picked[i] = self_r.start + (Length(self_r) * (i - 1)) \div out.count
             /\ out.picked[i] # self_r.end
       /\ (self_r = SampleRange /\ out.count = 3) => out.picked = <<10, 13, 16>>

\* C6 (amended): the non-random pick(count), count >= 1, returns the indices
\* start + floor(length / count * i), i = 0..count-1, in this order; end is
\* among them exactly when count >= length; pick(3) on {10,19} returns
\* [10, 13, 16].
C6_PickAmended ==
    (out.op = "pick" /\ out.count >= 1)
    => /\ Len(out.picked) = out.count
       /\ \A i \in 1..out.count :
             out.picked[i] = self_r.start + (Length(self_r) * (i - 1)) \div out.count
       /\ (\E i \in 1..out.count : out.picked[i] = self_r.end)
          <=> out.count >= Length(self_r)
       /\ (self_r = SampleRange /\ out.count = 3) => out.picked = <<10, 13, 16>>

C6_Witness ==
    /\ out.op = "pick"
    /\ Length(self_r) >= 2
    /\ out.count >= Length(self_r)
    /\ out.picked[out.count] = self_r.end

\* C7: get_unstable_range, get_range and merge leave the elementary list and
\* the operands of merge unchanged, so every get_range call returns what the
\* list as built gives for its arguments.
C7_ElementaryListUnchanged ==
    /\ [](pc = "ready" =>
            /\ ssim_list = built
            /\ last.op = "get_range" =>
                 LET r == get_range(built, "a.mp4", last.limit, last.range_threshold,
                                    last.threshold, last.offset, loop_period)
                 IN  /\ last.status = r.status
                     /\ last.stable = r.stable
                     /\ last.unstable = r.unstable)
    /\ [][pc = "range" => (self_r' = self_r /\ other_r' = other_r)]_vars

C7_Witness ==
    /\ pc = "ready"
    /\ last.op = "get_range"
    /\ last.status = "ok"
    /\ \E k \in 1..Len(last.unstable) : Len(last.unstable[k].ssim) >= 2
    /\ ssim_list = built

\* the merged list of the documentation: a left-to-right fold over the
\* candidates that emits the accumulator when the next one cannot be merged
RECURSIVE GreedyRuns(_, _, _)
GreedyRuns(cands, acc, offset) ==
    IF cands = <<>> THEN <<acc>>
    ELSE IF can_merge(acc, Head(cands), offset)
         THEN GreedyRuns(Tail(cands), merge(acc, Head(cands), offset).value, offset)
         ELSE <<acc>> \o GreedyRuns(Tail(cands), Head(cands), offset)

\* C8: before the filters, the merged list of get_unstable_range is sorted by
\* start, consists of the maximal runs of mergeable candidates and carries the
\* candidates' scores in order, for every non-empty sequence of candidates.
C8_GreedyMergeEmitsAll ==
    ( /\ pc = "ready"
      /\ last.op = "get_unstable_range"
      /\ last.limit = 0
      /\ last.range_threshold = 0
      /\ Candidates(last.threshold) # <<>> )
    => LET cands == Candidates(last.threshold)
       IN  /\ last.status = "ok"
           /\ last.unstable = GreedyRuns(Tail(cands), Head(cands), last.offset)
           /\ \A k \in 1..(Len(last.unstable) - 1) :
                 last.unstable[k].start <= last.unstable[k + 1].start
           /\ ConcatScores(last.unstable) = ConcatScores(cands)

\* C9: with a non-empty unstable list, get_range never fails with the
\* "frame not found" error.
C9_LookupsNeverFail ==
    (pc = "ready" /\ last.op = "get_range" /\ HasUnstable)
    => last.status # "RuntimeError"

FromPipeline == pc \in {"loop", "ready"} /\ frame_count > 0

\* C10: the list convert_video_into_ssim_list builds is ordered by start, each
\* range carries one score and consecutive ranges satisfy
\* r[i].end + 1 = r[i+1].start.
C10_ContiguousDisjoint ==
    FromPipeline
    => /\ \A i \in 1..Len(ssim_list) : Len(ssim_list[i].ssim) = 1
       /\ \A i \in 1..(Len(ssim_list) - 1) :
             /\ ssim_list[i].start < ssim_list[i + 1].start
             /\ ssim_list[i].end + 1 = ssim_list[i + 1].start

\* C10 (amended): the list convert_video_into_ssim_list builds is ordered by
\* start, each range carries one score and consecutive ranges share their
\* boundary frame: r[i].end = r[i+1].start.
C10_SharedBoundary ==
    FromPipeline
    => /\ \A i \in 1..Len(ssim_list) : Len(ssim_list[i].ssim) = 1
       /\ \A i \in 1..(Len(ssim_list) - 1) :
             /\ ssim_list[i].start < ssim_list[i + 1].start
             /\ ssim_list[i].end = ssim_list[i + 1].start

C10_Witness ==
    /\ pc = "ready"
    /\ frame_count > 0
    /\ step = 2
    /\ Len(ssim_list) >= 2

====
